---- MODULE Spec2Model ----
(***************************************************************************)
(* A model of tasks/experiment.py: the fixed-length audio loader, the two  *)
(* manifest builders, the two experiment runners, the Grad-CAM dispatch    *)
(* and the __main__ grid loop.  Collaborators that live outside the file   *)
(* (TrainManager, BaseModelManager, Preprocessor, ManualDataSet, pandas,   *)
(* numpy) are modelled by their documented behaviour at the call sites.    *)
(***************************************************************************)
EXTENDS Integers, Sequences, FiniteSets, TLC

VARIABLES
    pc,            \* position of the __main__ script (or of the loader harness)
    train_conf,    \* the shared, mutated-in-place configuration mapping
    disk,          \* what the manifest builders read from the input directory
    manifests,     \* manifest files written in this run: name -> rows
    artifacts,     \* output files written in this run: path -> content
    model_i,       \* index of the current model in the outer for loop
    lr_i,          \* index of the current learning rate in the inner for loop
    seed_i,        \* next value of range(5) in the HSS seed loop
    uar_res,       \* per-cell accumulator (a dict of lists)
    val_uar_res,   \* per-cell validation accumulator (a list)
    results,       \* results[metric_name]: one aggregated value per grid cell
    val_results,   \* one aggregated validation value per grid cell
    calls,         \* log of invocations: <<routine, model_type, lr, seed>>
    stdout,        \* what the script printed
    error,         \* the exception that ended the run, "none" if none
    stub,          \* behaviour of the Training Manager / Model Manager stand-in
    load_in,       \* loader harness: sr, one_audio_sec and the decoded wave
    load_out       \* loader harness: the array returned by load_func

vars == <<pc, train_conf, disk, manifests, artifacts, model_i, lr_i, seed_i,
          uar_res, val_uar_res, results, val_results, calls, stdout, error,
          stub, load_in, load_out>>

-----------------------------------------------------------------------------
(* Bounds of the model *)

MaxSr == 2
MaxSec == 2
MaxLen == 5
MaxFileNo == 2
MaxRows == 3
MaxTestRows == 2
MaxStem == 2
MaxFolds == 2

-----------------------------------------------------------------------------
(* Small helpers *)

Min(a, b) == IF a < b THEN a ELSE b

Max(a, b) == IF a < b THEN b ELSE a

Range(s) == {s[i] : i \in DOMAIN s}

RECURSIVE Gcd(_, _)
Gcd(a, b) == IF b = 0 THEN a ELSE Gcd(b, a % b)

\* A rational number <<numerator, denominator>> in lowest terms; <<0, 0>> is nan.
Norm(q) ==
    IF q[2] = 0 THEN <<0, 0>>
    ELSE LET g == Gcd(q[1], q[2]) IN
         IF g = 0 THEN <<0, 1>> ELSE <<q[1] \div g, q[2] \div g>>

Rat(n) == <<n, 1>>

AddQ(p, q) ==
    IF p[2] = 0 \/ q[2] = 0 THEN <<0, 0>>
    ELSE Norm(<<p[1] * q[2] + q[1] * p[2], p[2] * q[2]>>)

RECURSIVE SumQ(_)
SumQ(s) == IF s = <<>> THEN Rat(0) ELSE AddQ(s[1], SumQ(Tail(s)))

Mean_without_division(s) == SumQ(s)

\* numpy / pandas .mean(): the sum divided by the count; nan on no elements.
Mean(s) ==
    LET t == SumQ(s) IN Norm(<<t[1], t[2] * Len(s)>>)

-----------------------------------------------------------------------------
(* The audio loader: set_load_func / load_func *)

SampleValues == {-1, 1}

Zeros(n) == [i \in 1..n |-> 0]

\* wave[:n]
Take(s, n) == SubSeq(s, 1, Min(n, Len(s)))

\* np.pad(wave, n_pad): constant mode, n_pad zeros before and after.
Pad(wave, n) == Zeros(n) \o wave \o Zeros(n)

n_pad_without_one(const_length, len) == (const_length - len) \div 2

n_pad(const_length, len) == (const_length - len) \div 2 + 1

load_func(sr, one_audio_sec, decoded) ==
    LET const_length == sr * one_audio_sec
        wave ==
            IF Len(decoded) > const_length THEN Take(decoded, const_length)
            ELSE IF Len(decoded) < const_length
                 THEN Take(Pad(Take(decoded, const_length),
                               n_pad(const_length, Len(decoded))),
                           const_length)
                 ELSE decoded
    IN  <<wave>>

Waves == UNION {[1..n -> SampleValues] : n \in 0..MaxLen}

-----------------------------------------------------------------------------
(* Fixed lists of the script *)

Models == <<"vgg16", "vgg19", "resnet", "mobilenet", "resnext">>

Lrs == <<"0.0001", "0.00001">>

Seeds == <<0, 1, 2, 3, 4>>

test_metric_names == <<"uar", "recall_1", "specificity", "f1">>

MetricNames == Range(test_metric_names)

IndexOf(s, x) == CHOOSE i \in DOMAIN s : s[i] = x

\* The 0-based position of a (model, learning rate) cell, model-major.
CellOf(mi, li) == (mi - 1) * Len(Lrs) + (li - 1)

NoCells == Len(Models) * Len(Lrs)

-----------------------------------------------------------------------------
(* Label mappers *)

NaN == 0

None == "None"

converter == ("Normal" :> 0) @@ ("Abnormal" :> 1)

hss_label_func(row) == row[2]

\* converter[row[1]] raises KeyError on a label outside the vocabulary.
LabelKeyError(row) == row[2] \notin DOMAIN converter

cinc_label_func(row) == converter[row[2]]

-----------------------------------------------------------------------------
(* Manifest builders *)

Phases == {"train", "devel", "test"}

\* A wav file of input/wav: <<the phase word its name contains, a number>>.
WavNames == Phases \X (1..MaxFileNo)

\* Lexicographic order of the names found for one phase.
NameLess(a, b) == a[2] < b[2]

RECURSIVE SortNames(_)
SortNames(S) ==
    IF S = {} THEN <<>>
    ELSE LET m == CHOOSE x \in S : \A y \in S \ {x} : NameLess(x, y)
         IN  <<m>> \o SortNames(S \ {m})

RECURSIVE SortInts(_)
SortInts(S) ==
    IF S = {} THEN <<>>
    ELSE LET m == CHOOSE x \in S : \A y \in S : x <= y
         IN  <<m>> \o SortInts(S \ {m})

Drop(s, n) == SubSeq(s, Min(n, Len(s)) + 1, Len(s))

\* frame[col] = values, a list.  pandas rebuilds the index of a frame that has
\* no rows from the values (the other columns become NaN); a frame with rows
\* raises ValueError unless the lengths agree.
SetColumnFails(frame, values) ==
    Len(frame) > 0 /\ Len(frame) # Len(values)

SetColumn(frame, values) ==
    IF Len(frame) = 0
    THEN [i \in 1..Len(values) |-> <<NaN, values[i]>>]
    ELSE [i \in 1..Len(frame) |-> <<frame[i], values[i]>>]

WriteFile(files, name, content) ==
    [n \in DOMAIN files \cup {name} |-> IF n = name THEN content ELSE files[n]]

HssDisks ==
    [wav : SUBSET WavNames, train_dev_rows : 0..MaxRows, test_rows : 0..MaxTestRows]

dic(d, phase) == SortNames({p \in d.wav : p[1] = phase})

train_split(d, train_dev_label) ==
    Take(train_dev_label, Len(dic(d, "train")))

\* The result of create_hss_manifest on input directory d: the manifest files
\* as they are when it returns or raises, and the exception raised.
create_hss_manifest(d, files) ==
    LET train_dev_label == [i \in 1..d.train_dev_rows |-> i]
        test == [i \in 1..d.test_rows |-> i]
        train == train_split(d, train_dev_label)
        val == Drop(train_dev_label, Len(dic(d, "train")))
        f1 == WriteFile(files, "train_manifest.csv", SetColumn(train, dic(d, "train")))
        f2 == WriteFile(f1, "val_manifest.csv", SetColumn(val, dic(d, "devel")))
        testRows == [i \in 1..Len(test) |-> <<dic(d, "test")[i], test[i]>>]
        f3 == WriteFile(f2, "test_manifest.csv", testRows)
    IN  IF d.test_rows = 0
        THEN [files |-> files, error |-> "EmptyDataError"]
        ELSE IF SetColumnFails(train, dic(d, "train"))
        THEN [files |-> files, error |-> "ValueError"]
        ELSE IF Len(val) # Len(dic(d, "devel"))
        THEN [files |-> f1, error |-> "AssertionError"]
        ELSE IF SetColumnFails(test, dic(d, "test"))
        THEN [files |-> f2, error |-> "ValueError"]
        ELSE [files |-> f3, error |-> "none"]

Labels == {"Normal", "Abnormal", "Unsure"}

Stems == 1..MaxStem

CincDisks ==
    UNION {[heads : {H}, wavs : SUBSET Stems, label : [H -> Labels]] : H \in SUBSET Stems}

\* zip(head_paths, wav_paths) stops at the shorter list.
PairLen(a, b) == Min(Len(a), Len(b))

create_cinc_manifest(d, files) ==
    LET head_paths == SortInts(d.heads)
        wav_paths == SortInts(d.wavs)
        n == PairLen(head_paths, wav_paths)
        labels == [i \in 1..n |-> d.label[head_paths[i]]]
        manifest ==
            [i \in 1..Max(Len(wav_paths), Len(labels)) |->
                <<IF i <= Len(wav_paths) THEN wav_paths[i] ELSE NaN,
                  IF i <= Len(labels) THEN labels[i] ELSE None>>]
    IN  IF \E i \in 1..n : head_paths[i] # wav_paths[i]
        THEN [files |-> files, error |-> "AssertionError"]
        ELSE [files |-> WriteFile(files, "cinc_manifest.csv", manifest), error |-> "none"]

-----------------------------------------------------------------------------
(* The collaborators' behaviour *)

Stubs == [folds : 1..MaxFolds]

NoStub == [folds |-> 0]

\* The score the stand-in reports for metric number k in fold f of the run
\* configured with the c-th (model, learning rate) pair, in hundredths; the
\* number of folds is the stand-in's own.
Score(k, f, c) ==
    (80 + 10 * (f - 1) + 7 * k + 3 * ((c + 6) % 10)) % 101

CvMetricNames == {"loss"} \cup MetricNames

MetricNo(m) == IF m = "loss" THEN 5 ELSE IndexOf(test_metric_names, m) - 1

ConfCell(conf) ==
    CellOf(IndexOf(Models, conf.model_type), IndexOf(Lrs, conf.lr))

Outcomes == {"ok", "raise"}

-----------------------------------------------------------------------------
(* Output artifacts, keyed by the log identifier *)

ParamsPath_per_model(conf) == <<"output/params", conf.model_type>>

ParamsPath(conf) == <<"output/params", conf.log_id>>

MetricsPath(conf) == <<"output/metrics", conf.log_id>>

\* The two writes that end both runners: json.dumps(train_conf) into the params
\* file, metrics2df(...).to_csv into the metrics file; both truncate the file.
Persist(arts, conf, metrics) ==
    WriteFile(WriteFile(arts, ParamsPath(conf), conf), MetricsPath(conf), metrics)

-----------------------------------------------------------------------------
(* Experiment runners *)

HssClassNames(conf) ==
    IF conf.task_type = "regress" THEN <<0>> ELSE <<0, 1, 2>>

CvClassNames(conf) ==
    IF conf.task_type = "regress" THEN <<0>> ELSE <<0, 1>>

\* hss_experiment(train_conf): the configuration, artifacts, exception and
\* return value it leaves behind.
hss_experiment(conf, arts, outcome) ==
    LET conf1 == [conf EXCEPT !.class_names = HssClassNames(conf),
                              !.prev_classes = <<0, 1>>]
        uar == Score(0, 1, ConfCell(conf1) + conf1.seed)
        metrics == [m \in {"loss", "uar"} |-> <<Score(MetricNo(m), 1, ConfCell(conf1) + conf1.seed)>>]
    IN  IF outcome = "raise"
        THEN [conf |-> conf1, arts |-> arts, error |-> "CollaboratorError", ret |-> Rat(0)]
        ELSE [conf |-> conf1, arts |-> Persist(arts, conf1, metrics),
              error |-> "none", ret |-> Rat(uar)]

\* cv_experiment(train_conf): as above; ret is
\* <<val_cv_metrics['uar'].mean(), test_cv_metrics>>.
cv_experiment(conf, arts, mans, st, outcome) ==
    LET conf1 == [conf EXCEPT !.class_names = CvClassNames(conf),
                              !.prev_classes = <<0, 1>>]
        c == ConfCell(conf1)
        rows == mans["cinc_manifest.csv"]
        val_cv_metrics == [f \in 1..st.folds |-> Rat(Score(4, f, c))]
        test_cv_metrics ==
            [m \in CvMetricNames |-> [f \in 1..st.folds |-> Rat(Score(MetricNo(m), f, c))]]
        none == <<Rat(0), [m \in CvMetricNames |-> <<>>]>>
    IN  IF \E i \in DOMAIN rows : LabelKeyError(rows[i])
        THEN [conf |-> conf1, arts |-> arts, error |-> "KeyError", ret |-> none]
        ELSE IF outcome = "raise"
        THEN [conf |-> conf1, arts |-> arts, error |-> "CollaboratorError", ret |-> none]
        ELSE [conf |-> conf1, arts |-> Persist(arts, conf1, test_cv_metrics),
              error |-> "none", ret |-> <<Mean(val_cv_metrics), test_cv_metrics>>]

-----------------------------------------------------------------------------
(* The __main__ script *)

Paths == {"", "manifest.csv"}

LogIds == {"expt-a", "expt-b"}

Confs ==
    [train_path : Paths, val_path : Paths, gradcam : BOOLEAN,
     data_source : {"HSS", "CinC"}, task_type : {"classify", "regress"},
     log_id : LogIds, model_type : {"arg"}, lr : {"arg"}, seed : {-1},
     class_names : {<<>>}, prev_classes : {<<>>}]

NoDisk ==
    [wav |-> {}, train_dev_rows |-> 0, test_rows |-> 0,
     heads |-> {}, wavs |-> {}, label |-> <<>>]

EmptyRes == [m \in MetricNames |-> <<>>]

Called(log, conf, names) ==
    log \o [i \in 1..Len(names) |-> <<names[i], conf.model_type, conf.lr, conf.seed>>]

\* A Python list has an append attribute, a dict has none.
HasAppend(x) == DOMAIN x # MetricNames

MainInit ==
    /\ pc = "start"
    /\ train_conf \in Confs
    /\ stub \in (IF train_conf.data_source = "CinC" /\ ~train_conf.gradcam
                 THEN Stubs ELSE {NoStub})
    /\ disk = NoDisk
    /\ manifests = <<>>
    /\ artifacts = <<>>
    /\ model_i = 0
    /\ lr_i = 0
    /\ seed_i = 0
    /\ uar_res = EmptyRes
    /\ val_uar_res = <<>>
    /\ results = EmptyRes
    /\ val_results = <<>>
    /\ calls = <<>>
    /\ stdout = <<>>
    /\ error = "none"
    /\ load_in = [sr |-> 1, one_audio_sec |-> 1, wave |-> <<>>]
    /\ load_out = <<>>

Init == MainInit

\* An exception nobody catches ends the script.
Raise_swallowed(e) ==
    /\ pc' = IF pc = "cv_call" THEN "cell_append" ELSE "failed"
    /\ error' = e

Raise(e) ==
    /\ pc' = "failed"
    /\ error' = e

\* Line 211: the assertion on the two paths.
PathsGiven_unchecked(conf) == TRUE

PathsGiven(conf) == conf.train_path # "" \/ conf.val_path # ""

\* Line 228: exit() after the visualization routine returns.
AfterGradcam_falls_through == "manifest"

AfterGradcam == "exited"

\* Lines 209-216: parse the arguments, require a train or validation path,
\* branch on --gradcam.
CheckPaths ==
    /\ pc = "start"
    /\ IF PathsGiven(train_conf)
       THEN /\ pc' = IF train_conf.gradcam THEN "gradcam" ELSE "manifest"
            /\ UNCHANGED error
       ELSE Raise("AssertionError")
    /\ UNCHANGED <<train_conf, disk, manifests, artifacts, model_i, lr_i, seed_i,
                   uar_res, val_uar_res, results, val_results, calls, stdout,
                   stub, load_in, load_out>>

\* Lines 217-228: the Grad-CAM path.
GradcamDispatch ==
    /\ pc = "gradcam"
    /\ IF train_conf.data_source # "CinC"
       THEN /\ Raise("AssertionError")
            /\ UNCHANGED <<train_conf, calls>>
       ELSE \E setup \in Outcomes, viz \in Outcomes :
            LET conf1 == [train_conf EXCEPT !.class_names = <<0, 1>>] IN
            /\ train_conf' = conf1
            /\ IF setup = "raise"
               THEN /\ calls' = Called(calls, conf1, <<"Preprocessor">>)
                    /\ Raise("CollaboratorError")
               ELSE /\ calls' = Called(calls, conf1,
                                       <<"Preprocessor", "ManualDataSet",
                                         "set_dataloader", "gradcam_main">>)
                    /\ IF viz = "raise"
                       THEN Raise("CollaboratorError")
                       ELSE pc' = AfterGradcam /\ UNCHANGED error
    /\ UNCHANGED <<disk, manifests, artifacts, model_i, lr_i, seed_i, uar_res,
                   val_uar_res, results, val_results, stdout, stub, load_in,
                   load_out>>

\* Lines 230-231.
CreateHssManifest ==
    /\ pc = "manifest"
    /\ train_conf.data_source = "HSS"
    /\ \E d \in HssDisks :
        LET r == create_hss_manifest(d, manifests) IN
        /\ disk' = [NoDisk EXCEPT !.wav = d.wav, !.train_dev_rows = d.train_dev_rows,
                                  !.test_rows = d.test_rows]
        /\ manifests' = r.files
        /\ calls' = Called(calls, train_conf, <<"create_hss_manifest">>)
        /\ IF r.error = "none"
           THEN pc' = "for_model" /\ UNCHANGED error
           ELSE Raise(r.error)
    /\ UNCHANGED <<train_conf, artifacts, model_i, lr_i, seed_i, uar_res,
                   val_uar_res, results, val_results, stdout, stub, load_in,
                   load_out>>

\* Lines 232-233.
CreateCincManifest ==
    /\ pc = "manifest"
    /\ train_conf.data_source = "CinC"
    /\ \E d \in CincDisks :
        LET r == create_cinc_manifest(d, manifests) IN
        /\ disk' = [NoDisk EXCEPT !.heads = d.heads, !.wavs = d.wavs,
                                  !.label = d.label]
        /\ manifests' = r.files
        /\ calls' = Called(calls, train_conf, <<"create_cinc_manifest">>)
        /\ IF r.error = "none"
           THEN pc' = "for_model" /\ UNCHANGED error
           ELSE Raise(r.error)
    /\ UNCHANGED <<train_conf, artifacts, model_i, lr_i, seed_i, uar_res,
                   val_uar_res, results, val_results, stdout, stub, load_in,
                   load_out>>

\* Lines 235-246: the outer loop takes the next model, or ends.
ForModel ==
    /\ pc = "for_model"
    /\ IF model_i < Len(Models)
       THEN /\ model_i' = model_i + 1
            /\ train_conf' = [train_conf EXCEPT !.model_type = Models[model_i + 1]]
            /\ stdout' = Append(stdout, <<"model", Models[model_i + 1]>>)
            /\ lr_i' = 0
            /\ pc' = "for_lr"
       ELSE /\ pc' = "print_results"
            /\ UNCHANGED <<model_i, train_conf, stdout, lr_i>>
    /\ UNCHANGED <<disk, manifests, artifacts, seed_i, uar_res, val_uar_res,
                   results, val_results, calls, error, stub, load_in, load_out>>

\* Lines 250-255: the inner loop takes the next learning rate, or ends.
ForLr ==
    /\ pc = "for_lr"
    /\ IF lr_i < Len(Lrs)
       THEN /\ lr_i' = lr_i + 1
            /\ train_conf' = [train_conf EXCEPT !.lr = Lrs[lr_i + 1]]
            /\ uar_res' = EmptyRes
            /\ val_uar_res' = <<>>
            /\ seed_i' = 0
            /\ pc' = IF train_conf.data_source = "HSS" THEN "for_seed" ELSE "cv_call"
       ELSE /\ pc' = "for_model"
            /\ UNCHANGED <<lr_i, train_conf, uar_res, val_uar_res, seed_i>>
    /\ UNCHANGED <<disk, manifests, artifacts, model_i, results, val_results,
                   calls, stdout, error, stub, load_in, load_out>>

\* Lines 256-257: the seed loop takes the next seed, or ends.
ForSeed ==
    /\ pc = "for_seed"
    /\ IF seed_i < Len(Seeds)
       THEN /\ seed_i' = seed_i + 1
            /\ train_conf' = [train_conf EXCEPT !.seed = Seeds[seed_i + 1]]
            /\ pc' = "hss_call"
       ELSE /\ pc' = "cell_append"
            /\ UNCHANGED <<seed_i, train_conf>>
    /\ UNCHANGED <<disk, manifests, artifacts, model_i, lr_i, uar_res,
                   val_uar_res, results, val_results, calls, stdout, error,
                   stub, load_in, load_out>>

\* Line 258: uar_res.append(hss_experiment(train_conf)).  Python evaluates the
\* callee uar_res.append before the argument.
HssCall ==
    /\ pc = "hss_call"
    /\ IF ~HasAppend(uar_res)
       THEN /\ Raise("AttributeError")
            /\ UNCHANGED <<train_conf, artifacts, uar_res, calls>>
       ELSE \E outcome \in Outcomes :
            LET r == hss_experiment(train_conf, artifacts, outcome) IN
            /\ calls' = Called(calls, train_conf, <<"hss_experiment">>)
            /\ train_conf' = r.conf
            /\ artifacts' = r.arts
            /\ IF r.error # "none"
               THEN Raise(r.error) /\ UNCHANGED uar_res
               ELSE /\ uar_res' = Append(uar_res, r.ret)
                    /\ pc' = "for_seed"
                    /\ UNCHANGED error
    /\ UNCHANGED <<disk, manifests, model_i, lr_i, seed_i, val_uar_res, results,
                   val_results, stdout, stub, load_in, load_out>>

\* Lines 259-263: run the cross-validation experiment and accumulate.
CvCall ==
    /\ pc = "cv_call"
    /\ \E outcome \in Outcomes :
        LET r == cv_experiment(train_conf, artifacts, manifests, stub, outcome)
            val_uar == r.ret[1]
            test_metrics == r.ret[2]
        IN
        /\ calls' = Called(calls, train_conf, <<"cv_experiment">>)
        /\ train_conf' = r.conf
        /\ artifacts' = r.arts
        /\ IF r.error # "none"
           THEN Raise(r.error) /\ UNCHANGED <<uar_res, val_uar_res>>
           ELSE /\ val_uar_res' = Append(val_uar_res, val_uar)
                /\ uar_res' = [m \in MetricNames |->
                                 Append(uar_res[m], Mean(test_metrics[m]))]
                /\ pc' = "cell_append"
                /\ UNCHANGED error
    /\ UNCHANGED <<disk, manifests, model_i, lr_i, seed_i, results, val_results,
                   stdout, stub, load_in, load_out>>

\* Lines 267-269: append the cell's means to the running result sequences.
CellAppend ==
    /\ pc = "cell_append"
    /\ val_results' = Append(val_results, Mean(val_uar_res))
    /\ results' = [m \in MetricNames |-> Append(results[m], Mean(uar_res[m]))]
    /\ calls' = Called(calls, train_conf, <<"results.append">>)
    /\ pc' = "for_lr"
    /\ UNCHANGED <<train_conf, disk, manifests, artifacts, model_i, lr_i, seed_i,
                   uar_res, val_uar_res, stdout, error, stub, load_in,
                   load_out>>

\* Lines 271-273: print the aggregated results.
PrintResults ==
    /\ pc = "print_results"
    /\ stdout' = stdout \o <<<<"val_results", val_results>>, <<"results", results>>>>
    /\ pc' = "done"
    /\ UNCHANGED <<train_conf, disk, manifests, artifacts, model_i, lr_i, seed_i,
                   uar_res, val_uar_res, results, val_results, calls, error,
                   stub, load_in, load_out>>

Next ==
    \/ CheckPaths
    \/ GradcamDispatch
    \/ CreateHssManifest
    \/ CreateCincManifest
    \/ ForModel
    \/ ForLr
    \/ ForSeed
    \/ HssCall
    \/ CvCall
    \/ CellAppend
    \/ PrintResults

Spec == Init /\ [][Next]_vars

-----------------------------------------------------------------------------
(* The loader harness: load_func applied to one decoded wave *)

LoadInit ==
    /\ pc = "load_ready"
    /\ load_in \in [sr : 1..MaxSr, one_audio_sec : 1..MaxSec, wave : Waves]
    /\ load_out = <<>>
    /\ train_conf \in {c \in Confs : c.train_path = "" /\ c.val_path = ""
                                     /\ ~c.gradcam /\ c.data_source = "HSS"
                                     /\ c.task_type = "classify"
                                     /\ c.log_id = "expt-a"}
    /\ stub = NoStub
    /\ disk = NoDisk
    /\ manifests = <<>>
    /\ artifacts = <<>>
    /\ model_i = 0
    /\ lr_i = 0
    /\ seed_i = 0
    /\ uar_res = EmptyRes
    /\ val_uar_res = <<>>
    /\ results = EmptyRes
    /\ val_results = <<>>
    /\ calls = <<>>
    /\ stdout = <<>>
    /\ error = "none"

LoadFunc ==
    /\ pc = "load_ready"
    /\ load_out' = load_func(load_in.sr, load_in.one_audio_sec, load_in.wave)
    /\ pc' = "load_done"
    /\ UNCHANGED <<train_conf, disk, manifests, artifacts, model_i, lr_i, seed_i,
                   uar_res, val_uar_res, results, val_results, calls, stdout,
                   error, stub, load_in>>

LoadNext == LoadFunc

LoadSpec == LoadInit /\ [][LoadNext]_vars

-----------------------------------------------------------------------------
(* Properties *)

Count(log, routines) == Cardinality({i \in DOMAIN log : log[i][1] \in routines})

Runners == {"hss_experiment", "cv_experiment"}

Builders == {"create_hss_manifest", "create_cinc_manifest"}

Printed == \E i \in DOMAIN stdout : stdout[i][1] \in {"results", "val_results"}

Ended == pc \in {"done", "failed", "exited"}

\* C1: the array load_func returns has one row of exactly T = sr * one_audio_sec
\* samples; for a decoded wave of length L >= T the row is the first T samples;
\* for L < T the row is (T - L) div 2 + 1 zeros, then the wave, then zeros, cut
\* to T samples.
C1_LoadFuncOutput ==
    pc = "load_done" =>
        LET T == load_in.sr * load_in.one_audio_sec
            L == Len(load_in.wave)
            n == (T - L) \div 2 + 1
        IN  /\ Len(load_out) = 1
            /\ Len(load_out[1]) = T
            /\ L >= T => \A i \in 1..T : load_out[1][i] = load_in.wave[i]
            /\ L < T => \A i \in 1..T :
                   load_out[1][i] = IF i > n /\ i - n <= L THEN load_in.wave[i - n]
                                    ELSE 0

C1_Witness ==
    /\ pc = "load_done"
    /\ load_in.sr * load_in.one_audio_sec = 4
    /\ load_in.wave = <<1>>
    /\ load_out = <<<<0, 0, 1, 0>>>>


IsAppend(e) == e[1] = "results.append"

IsRunnerCall(e) == e[1] \in Runners

\* The seeds of the hss_experiment invocations made for one grid cell, in order.
SeedsOf(mi, li) ==
    LET IsCell(e) == e[1] = "hss_experiment" /\ e[2] = Models[mi] /\ e[3] = Lrs[li]
        sel == SelectSeq(calls, IsCell)
    IN  [i \in 1..Len(sel) |-> sel[i][4]]

RECURSIVE SumSeq(_)
SumSeq(s) == IF s = <<>> THEN 0 ELSE s[1] + SumSeq(Tail(s))

\* q is the arithmetic mean of the integers xs.
IsMeanOf(q, xs) == q[2] > 0 /\ q[1] * Len(xs) = q[2] * SumSeq(xs)

\* The failure of a runner: in a run without --gradcam these two exceptions
\* come only out of hss_experiment / cv_experiment.
RunnerRaised ==
    ~train_conf.gradcam /\ error \in {"CollaboratorError", "KeyError"}

C3_CincCellMeans ==
    train_conf.data_source = "CinC" =>
        \A i \in 1..Len(val_results) :
            /\ IsMeanOf(val_results[i], [f \in 1..stub.folds |-> Score(4, f, i - 1)])
            /\ \A m \in MetricNames :
                  /\ i <= Len(results[m])
                  /\ IsMeanOf(results[m][i],
                              [f \in 1..stub.folds |-> Score(MetricNo(m), f, i - 1)])

\* Two folds with test uar 0.80 and 0.90 for resnet at 0.0001 give 0.85.
C3_Witness ==
    /\ train_conf.data_source = "CinC"
    /\ stub.folds = 2
    /\ Score(0, 1, 4) = 80
    /\ Score(0, 2, 4) = 90
    /\ Len(results["uar"]) >= 5
    /\ results["uar"][5] = <<85, 1>>
    /\ Len(val_results) >= 5

\* C4: with data source HSS, once the script has left the seed loop of a grid
\* cell other than by a failure inside hss_experiment, hss_experiment has been
\* invoked for that cell exactly five times, with seeds 0, 1, 2, 3, 4 in order.
C4_HssFiveSeedsPerCell ==
    (/\ train_conf.data_source = "HSS"
     /\ lr_i >= 1
     /\ pc \notin {"for_seed", "hss_call"}
     /\ ~RunnerRaised) =>
        SeedsOf(model_i, lr_i) = Seeds

\* C5: with --gradcam set no manifest builder and no experiment runner is ever
\* invoked and nothing is written; the visualization routine is invoked at most
\* once, the script ends with that call, and a run that ends without an
\* exception has invoked it exactly once.  Without --gradcam it is never invoked.
C5_GradcamExclusive ==
    /\ ~train_conf.gradcam => Count(calls, {"gradcam_main"}) = 0
    /\ train_conf.gradcam =>
        /\ Count(calls, Builders \cup Runners) = 0
        /\ manifests = <<>>
        /\ artifacts = <<>>
        /\ Count(calls, {"gradcam_main"}) <= 1
        /\ Count(calls, {"gradcam_main"}) = 1 => Ended
        /\ (Ended /\ error = "none") =>
               (pc = "exited" /\ Count(calls, {"gradcam_main"}) = 1)

C5_Witness ==
    /\ train_conf.gradcam
    /\ pc = "exited"
    /\ Count(calls, {"gradcam_main"}) = 1

ConfigError ==
    \/ (train_conf.train_path = "" /\ train_conf.val_path = "")
    \/ (train_conf.gradcam /\ train_conf.data_source # "CinC")

\* C6: with both paths empty, or with --gradcam and a data source other than
\* CinC, the script ends in an AssertionError before any manifest builder,
\* constructor, runner or visualization routine is invoked and before any
\* file is written.
C6_ConfigErrorsFatalAtStartup ==
    ConfigError =>
        /\ calls = <<>>
        /\ manifests = <<>>
        /\ artifacts = <<>>
        /\ stdout = <<>>
        /\ pc \in {"start", "gradcam", "failed"}
        /\ error \in {"none", "AssertionError"}
        /\ pc = "failed" <=> error = "AssertionError"

C6_Witness ==
    /\ train_conf.gradcam
    /\ train_conf.data_source = "HSS"
    /\ train_conf.train_path # ""
    /\ pc = "failed"
    /\ error = "AssertionError"

\* What the manifest builder read holds a data-integrity error.
IntegrityError ==
    IF train_conf.data_source = "HSS"
    THEN \/ Len(dic(disk, "train")) + Len(dic(disk, "devel")) # disk.train_dev_rows
         \/ Len(dic(disk, "test")) # disk.test_rows
    ELSE \/ Cardinality(disk.heads) # Cardinality(disk.wavs)
         \/ disk.heads # disk.wavs
         \/ \E h \in disk.heads : disk.label[h] \notin {"Normal", "Abnormal"}

\* C7: no experiment runner is ever invoked after a manifest builder read input
\* with a data-integrity error: the run failed in the builder.
C7_IntegrityErrorStopsBeforeRunner ==
    Count(calls, Runners) > 0 => ~IntegrityError

\* C8: once a runner invocation has failed the script is over: the failing
\* invocation is the last one and the only one of its cell, no later cell was
\* attempted, the result sequences hold the earlier cells' values only, and the
\* aggregated results are not printed.
C8_RunnerFailureEndsRun ==
    RunnerRaised =>
        LET cell == CellOf(model_i, lr_i)
            run == SelectSeq(calls, IsRunnerCall)
        IN  /\ pc = "failed"
            /\ ~ENABLED Next
            /\ Len(run) = cell + 1
            /\ calls[Len(calls)] = run[Len(run)]
            /\ run[Len(run)][2] = Models[model_i]
            /\ run[Len(run)][3] = Lrs[lr_i]
            /\ \A i \in 1..(Len(run) - 1) :
                  <<run[i][2], run[i][3]>> # <<Models[model_i], Lrs[lr_i]>>
            /\ Len(val_results) = cell
            /\ \A m \in MetricNames : Len(results[m]) = cell
            /\ ~Printed

C8_Witness ==
    /\ RunnerRaised
    /\ error = "CollaboratorError"
    /\ model_i = 3
    /\ lr_i = 2
    /\ Len(val_results) = 5

HssBuilderFailed ==
    /\ Count(calls, {"create_hss_manifest"}) > 0
    /\ error \in {"AssertionError", "ValueError", "EmptyDataError"}

HssBuilderCompleted ==
    /\ Count(calls, {"create_hss_manifest"}) > 0
    /\ ~HssBuilderFailed

\* C9: when create_hss_manifest completes, the train and val manifests together
\* have as many rows as the combined label table, the test manifest has one row
\* per discovered test file, each manifest lists its files in sorted order, the
\* train rows are the first len(train files) label rows and the val rows all the
\* others; when it fails, no manifest file has been written.
C9_HssManifestShape ==
    /\ HssBuilderFailed => manifests = <<>>
    /\ HssBuilderCompleted =>
        LET train == manifests["train_manifest.csv"]
            val == manifests["val_manifest.csv"]
            test == manifests["test_manifest.csv"]
        IN  /\ Len(train) + Len(val) = disk.train_dev_rows
            /\ Len(test) = Len(dic(disk, "test"))
            /\ \A i \in 1..Len(train) : train[i] = <<i, dic(disk, "train")[i]>>
            /\ \A i \in 1..Len(val) :
                  val[i] = <<Len(dic(disk, "train")) + i, dic(disk, "devel")[i]>>
            /\ \A i \in 1..(Len(test) - 1) : NameLess(test[i][1], test[i + 1][1])
            /\ \A i \in 1..(Len(train) - 1) : NameLess(train[i][2], train[i + 1][2])
            /\ \A i \in 1..(Len(val) - 1) : NameLess(val[i][2], val[i + 1][2])

\* The runner invocations that returned, in order.
Returned ==
    LET run == SelectSeq(calls, IsRunnerCall)
    IN  IF RunnerRaised THEN SubSeq(run, 1, Len(run) - 1) ELSE run

C10_Artifacts ==
    LET params == <<"output/params", train_conf.log_id>>
        metrics == <<"output/metrics", train_conf.log_id>>
        last == Returned[Len(Returned)]
    IN  /\ DOMAIN artifacts \subseteq {params, metrics}
        /\ Returned = <<>> => artifacts = <<>>
        /\ Returned # <<>> =>
            /\ DOMAIN artifacts = {params, metrics}
            /\ artifacts[params].model_type = last[2]
            /\ artifacts[params].lr = last[3]
            /\ artifacts[params].log_id = train_conf.log_id
        /\ (pc = "done" /\ Returned # <<>>) =>
            /\ artifacts[params].model_type = Models[Len(Models)]
            /\ artifacts[params].lr = Lrs[Len(Lrs)]

C10_Frame ==
    /\ \A f \in {"train_path", "val_path", "gradcam", "data_source", "task_type",
                 "log_id"} : train_conf'[f] = train_conf[f]
    /\ pc \in {"for_model", "for_lr", "for_seed", "cell_append", "print_results"} =>
        /\ train_conf'.class_names = train_conf.class_names
        /\ train_conf'.prev_classes = train_conf.prev_classes
    /\ train_conf.data_source # "HSS" => train_conf'.seed = train_conf.seed

\* C10: the statements of the grid loop change only model_type, lr and (HSS)
\* seed of the configuration, and no step changes log_id; every runner
\* invocation writes output/params/<log_id> and output/metrics/<log_id> and no
\* other artifact, replacing what the invocation before wrote: the params file
\* records the model_type and lr of the latest invocation that returned, and
\* after the grid completed those of the last model and last learning rate.
C10_SharedArtifactPaths == []C10_Artifacts /\ [][C10_Frame]_vars

C10_Witness ==
    /\ pc = "done"
    /\ Len(Returned) = NoCells
    /\ Cardinality(DOMAIN artifacts) = 2
    /\ artifacts[<<"output/params", train_conf.log_id>>].model_type = "resnext"
    /\ artifacts[<<"output/params", train_conf.log_id>>].lr = "0.00001"

====
